---- MODULE Spec2Model ----
(***************************************************************************)
(* Connection lifecycle of the mcp-cli server adapters (pkg/adapter):      *)
(* HTTPAdapter and StdioAdapter over a shared BaseAdapter, the stdio       *)
(* readiness prober (waitForProcessReady / pingProcess) and the exit       *)
(* classifier (isProcessExitError).                                        *)
(*                                                                         *)
(* One adapter instance is modelled.  The transport library (mcp-go) is    *)
(* the environment: creating a client, every request and every Close may   *)
(* succeed or fail with any error of a small representative set.  Error    *)
(* texts are sequences of characters so that the classifier's substring    *)
(* matching is computed, not assumed.                                      *)
(*                                                                         *)
(* The source holds two texts of StdioAdapter; the one modelled is the     *)
(* later one, with the readiness prober (http.go lines 379-649).           *)
(*                                                                         *)
(* Four specifications share the module: Spec (the operations of one       *)
(* adapter, called in any order), SpecFactory (the construction functions  *)
(* of adapter.go and factory.go applied to their inputs), SpecCommand (the *)
(* connect command driving the adapter) and SpecRegistry (the name lookups *)
(* of the registry client).                                                *)
(***************************************************************************)
EXTENDS Integers, Sequences, FiniteSets, TLC

(***************************************************************************)
(* Bounds of the model                                                     *)
(***************************************************************************)
\* transport sessions one adapter creates over its life (Connect calls that
\* get as far as creating a client)
MaxSessions == 2
\* capability requests one adapter writes to its sessions over its life
MaxCalls == 2

\* lines the connect command reads from the terminal before the input ends
MaxLines == 2

\* servers FindServersByNamePattern collects before the registry stops
\* delivering matching ones
MaxMatches == 2

(***************************************************************************)
(* Error texts, as character sequences                                     *)
(***************************************************************************)
TokProcess ==
    << "p", "r", "o", "c", "e", "s", "s" >>
TokExit ==
    << "e", "x", "i", "t" >>
TokPipe ==
    << "p", "i", "p", "e" >>
TokBroken ==
    << "b", "r", "o", "k", "e", "n" >>
TokEOF ==
    << "E", "O", "F" >>

ErrEOF ==
    << "E", "O", "F" >>
ErrBrokenPipe ==
    << "b", "r", "o", "k", "e", "n", " ", "p", "i", "p", "e" >>
ErrDeadline ==
    << "c", "o", "n", "t", "e", "x", "t", " ", "d", "e", "a", "d", "l", "i", "n", "e", " ", "e", "x", "c", "e", "e", "d", "e", "d" >>
ErrCanceled ==
    << "c", "o", "n", "t", "e", "x", "t", " ", "c", "a", "n", "c", "e", "l", "e", "d" >>
ErrKilled ==
    << "s", "i", "g", "n", "a", "l", ":", " ", "k", "i", "l", "l", "e", "d" >>
ErrRefused ==
    << "c", "o", "n", "n", "e", "c", "t", "i", "o", "n", " ", "r", "e", "f", "u", "s", "e", "d" >>

\* the empty text: no error
NoText == << >>

\* errors a readiness probe may fail with when the caller's context is
\* live (the per-probe timeout makes a deadline error possible at any time)
ProbeErrors == { ErrEOF, ErrBrokenPipe, ErrDeadline, ErrKilled }
\* errors the handshake or a capability request may fail with when the
\* caller's context is live
RequestErrors == { ErrEOF, ErrDeadline }
\* errors creating the client may fail with
CreateErrors == { ErrRefused }
\* errors Close may report
CloseErrors == { ErrKilled }

\* strings.Contains(s, sub)
Contains(s, sub) ==
    \E i \in 0..(Len(s) - Len(sub)) : SubSeq(s, i + 1, i + Len(sub)) = sub

isProcessExitError(err) ==
    IF err = NoText THEN FALSE
    ELSE \/ Contains(err, TokProcess)
         \/ Contains(err, TokExit)
         \/ Contains(err, TokPipe)
         \/ Contains(err, TokBroken)
         \/ Contains(err, TokEOF)

(***************************************************************************)
(* Errors returned by the adapter: a message, the target named in it, and  *)
(* the wrapped cause (%w), empty when nothing is wrapped.  A raw error of   *)
(* the transport or the context has an empty message.                      *)
(***************************************************************************)
Err(m, t, c) == [msg |-> m, target |-> t, cause |-> c]
NoError == Err("", "", NoText)
Raw(c) == Err("", "", c)

MsgAlreadyConnected == "already connected"
MsgNotConnected == "not connected to server"
MsgProcessExited == "process exited unexpectedly - check command"
MsgProcessNotReady == "process did not become ready within expected time"
MsgInitialize == "failed to initialize"

Nil == "nil"
ServerIdentities == { "srvA", "srvB" }
Targets == { "a", "b" }

ListOps == { "ListTools", "ListResources", "ListPrompts" }
NamedOps == { "CallTool", "ReadResource", "GetPrompt" }
CapOps == ListOps \cup NamedOps
Ops == CapOps \cup { "Connect", "Disconnect", "GetServerInfo", "IsConnected" }

\* the delays of waitForProcessReady: one probe per delay (milliseconds)
delays == << 100, 500, 1000 >>

(***************************************************************************)
(* Construction of adapters (adapter.go, factory.go, the constructors of   *)
(* http.go).  Strings that the code inspects (prefixes, whitespace, the    *)
(* text of a duration) are sequences of characters; durations are whole    *)
(* seconds.                                                                *)
(***************************************************************************)
AdapterTypeStdio == << "s", "t", "d", "i", "o" >>

AdapterTypeHTTP == << "h", "t", "t", "p" >>

AdapterTypeStreamable == << "s", "t", "r", "e", "a", "m", "a", "b", "l", "e" >>

\* the zero value of Config
ZeroConfig ==
    [ServerURL |-> NoText, Command |-> NoText, Args |-> << >>, Env |-> << >>,
     Timeout |-> 0, Verbose |-> FALSE]

\* 30 * time.Second
DefaultTimeout == 30

\* errors of the constructors and the factory: the message and its %s argument
ConfigErr(m, a) == [msg |-> m, arg |-> a]

NoConfigErr == ConfigErr("", NoText)

MsgCommandRequired == "command is required for stdio adapter"
MsgServerURLRequired == "server URL is required for HTTP adapter"
MsgURLRequired == "URL is required for HTTP adapter"
MsgURLScheme == "server URL must start with http:// or https://"
MsgUnsupported == "unsupported adapter type"
MsgTypeRequired == "adapter type is required"
MsgInvalidCommand == "invalid command"
MsgTimeoutPositive == "timeout must be positive"

\* what a constructor returns: an adapter of a variant holding a config, or
\* no adapter and an error
Built(v, config) ==
    [ok |-> TRUE, variant |-> v, config |-> config, err |-> NoConfigErr]

Failed(e) == [ok |-> FALSE, variant |-> "none", config |-> ZeroConfig, err |-> e]

\* the timeout a constructor stores
StoredTimeout(t) == IF t = 0 THEN DefaultTimeout ELSE t

NewStdioAdapter(config) ==
    IF config.Command = NoText
      THEN Failed(ConfigErr(MsgCommandRequired, NoText))
      ELSE Built("stdio", [config EXCEPT !.Timeout = StoredTimeout(@)])

NewHTTPAdapter_NoCheck(config) ==
    Built("http", [config EXCEPT !.Timeout = StoredTimeout(@)])

NewHTTPAdapter(config) ==
    IF config.ServerURL = NoText
      THEN Failed(ConfigErr(MsgServerURLRequired, NoText))
      ELSE Built("http", [config EXCEPT !.Timeout = StoredTimeout(@)])

NewAdapter_NoStreamable(adapterType, config) ==
    IF adapterType = AdapterTypeStdio THEN NewStdioAdapter(config)
    ELSE IF adapterType = AdapterTypeHTTP THEN NewHTTPAdapter(config)
    ELSE Failed(ConfigErr(MsgUnsupported, adapterType))

NewAdapter(adapterType, config) ==
    IF adapterType = AdapterTypeStdio THEN NewStdioAdapter(config)
    ELSE IF adapterType \in { AdapterTypeHTTP, AdapterTypeStreamable }
      THEN NewHTTPAdapter(config)
    ELSE Failed(ConfigErr(MsgUnsupported, adapterType))

\* strings.HasPrefix
HasPrefix(s, prefix) ==
    /\ Len(s) >= Len(prefix)
    /\ SubSeq(s, 1, Len(prefix)) = prefix

SchemeHTTP == << "h", "t", "t", "p", ":", "/", "/" >>

SchemeHTTPS == << "h", "t", "t", "p", "s", ":", "/", "/" >>

\* the white space strings.Fields splits on (unicode.IsSpace), as far as the
\* inputs of the model hold it
IsSpace(ch) == ch \in { " ", "\t", "\n" }

\* strings.Fields: the maximal runs of non-space characters, in order
RECURSIVE Fields(_)
Fields(s) ==
    IF s = << >> THEN << >>
    ELSE IF IsSpace(Head(s)) THEN Fields(Tail(s))
    ELSE LET n == CHOOSE i \in 1..Len(s) :
                    /\ \A j \in 1..i : ~IsSpace(s[j])
                    /\ (i = Len(s) \/ IsSpace(s[i + 1]))
         IN  << SubSeq(s, 1, n) >> \o Fields(SubSeq(s, n + 1, Len(s)))

\* the timeouts ValidateConfig refuses
TimeoutInvalid_Negative(t) == t < 0

TimeoutInvalid(t) == t <= 0

\* the error returned by ValidateConfig, NoConfigErr when the config is valid
ValidateConfig(adapterType, config) ==
    IF adapterType = AdapterTypeStdio /\ config.Command = NoText
      THEN ConfigErr(MsgCommandRequired, NoText)
    ELSE IF adapterType \in { AdapterTypeHTTP, AdapterTypeStreamable }
            /\ config.ServerURL = NoText
      THEN ConfigErr(MsgServerURLRequired, NoText)
    ELSE IF adapterType \in { AdapterTypeHTTP, AdapterTypeStreamable }
            /\ ~HasPrefix(config.ServerURL, SchemeHTTP)
            /\ ~HasPrefix(config.ServerURL, SchemeHTTPS)
      THEN ConfigErr(MsgURLScheme, NoText)
    ELSE IF adapterType \notin { AdapterTypeStdio, AdapterTypeHTTP,
                                 AdapterTypeStreamable }
      THEN ConfigErr(MsgUnsupported, adapterType)
    ELSE IF TimeoutInvalid(config.Timeout)
      THEN ConfigErr(MsgTimeoutPositive, NoText)
    ELSE NoConfigErr

GetSupportedTypes == << AdapterTypeStdio, AdapterTypeHTTP, AdapterTypeStreamable >>

\* CreateFromURL_AllParts keeps the command among the arguments
CreateFromURL_AllParts(url, verbose) ==
    IF HasPrefix(url, SchemeHTTP) \/ HasPrefix(url, SchemeHTTPS)
      THEN NewHTTPAdapter([ZeroConfig EXCEPT !.ServerURL = url,
                                             !.Verbose = verbose,
                                             !.Timeout = DefaultTimeout])
      ELSE LET parts == Fields(url) IN
           IF Len(parts) = 0
             THEN Failed(ConfigErr(MsgInvalidCommand, url))
             ELSE NewStdioAdapter([ZeroConfig EXCEPT !.Command = parts[1],
                                                     !.Args = parts,
                                                     !.Verbose = verbose,
                                                     !.Timeout = DefaultTimeout])

CreateFromURL(url, verbose) ==
    IF HasPrefix(url, SchemeHTTP) \/ HasPrefix(url, SchemeHTTPS)
      THEN NewHTTPAdapter([ZeroConfig EXCEPT !.ServerURL = url,
                                             !.Verbose = verbose,
                                             !.Timeout = DefaultTimeout])
      ELSE LET parts == Fields(url) IN
           IF Len(parts) = 0
             THEN Failed(ConfigErr(MsgInvalidCommand, url))
             ELSE NewStdioAdapter([ZeroConfig EXCEPT !.Command = parts[1],
                                                     !.Args = Tail(parts),
                                                     !.Verbose = verbose,
                                                     !.Timeout = DefaultTimeout])

(***************************************************************************)
(* The values of the weakly typed mapping (map[string]interface{}): the    *)
(* dynamic type and the value under it; a key that is not in the mapping   *)
(* is Absent.  "strings" is []string and "list" is []interface{}.          *)
(***************************************************************************)
Value(t, s, n, b, l) == [t |-> t, s |-> s, n |-> n, b |-> b, l |-> l]

Absent == Value("absent", NoText, 0, FALSE, << >>)
StringValue(s) == Value("string", s, 0, FALSE, << >>)
IntValue(n) == Value("int", NoText, n, FALSE, << >>)
BoolValue(b) == Value("bool", NoText, 0, b, << >>)
DurationValue(n) == Value("duration", NoText, n, FALSE, << >>)
StringsValue(l) == Value("strings", NoText, 0, FALSE, l)
ListValue(l) == Value("list", NoText, 0, FALSE, l)

\* the type assertion v.(string); AsString_Coerce takes any value present
AsString_Coerce(v) == [ok |-> v.t # "absent", s |-> IF v.t = "string" THEN v.s ELSE << "?" >>]

AsString(v) == [ok |-> v.t = "string", s |-> IF v.t = "string" THEN v.s ELSE NoText]

getBool(v, defaultValue) == IF v.t = "bool" THEN v.b ELSE defaultValue

IsDigit(ch) == ch \in { "0", "1", "2", "3", "4", "5", "6", "7", "8", "9" }

Digit(ch) ==
    CASE ch = "0" -> 0 [] ch = "1" -> 1 [] ch = "2" -> 2 [] ch = "3" -> 3
      [] ch = "4" -> 4 [] ch = "5" -> 5 [] ch = "6" -> 6 [] ch = "7" -> 7
      [] ch = "8" -> 8 [] ch = "9" -> 9

RECURSIVE Atoi(_)
Atoi(ds) ==
    IF ds = << >> THEN 0
    ELSE 10 * Atoi(SubSeq(ds, 1, Len(ds) - 1)) + Digit(ds[Len(ds)])

UnitSeconds(u) ==
    CASE u = << "s" >> -> 1
      [] u = << "m" >> -> 60
      [] u = << "h" >> -> 3600
      [] OTHER -> 0

\* time.ParseDuration, for texts of one whole number and one unit of s, m, h:
\* an optional sign, "0" alone, else digits and a unit; anything else fails
ParseDuration(s) ==
    LET neg == s # << >> /\ Head(s) = "-"
        t == IF s # << >> /\ Head(s) \in { "-", "+" } THEN Tail(s) ELSE s
        nd == Cardinality({ i \in 1..Len(t) : \A j \in 1..i : IsDigit(t[j]) })
        u == SubSeq(t, nd + 1, Len(t))
    IN  IF t = << "0" >> THEN [ok |-> TRUE, d |-> 0]
        ELSE IF nd = 0 \/ UnitSeconds(u) = 0 THEN [ok |-> FALSE, d |-> 0]
        ELSE [ok |-> TRUE,
              d |-> (IF neg THEN -1 ELSE 1) * Atoi(SubSeq(t, 1, nd)) * UnitSeconds(u)]

getDuration(v, defaultValue) ==
    IF v.t = "duration" THEN v.n
    ELSE IF v.t = "string" /\ ParseDuration(v.s).ok THEN ParseDuration(v.s).d
    ELSE defaultValue

\* a mapping without keys
EmptyMapping ==
    [type |-> Absent, command |-> Absent, url |-> Absent, args |-> Absent,
     env |-> Absent, verbose |-> Absent, timeout |-> Absent]

CreateFromConfig(config) ==
    LET adapterType == AsString(config.type)
        adapterConfig == [ZeroConfig EXCEPT
                            !.Verbose = getBool(config.verbose, FALSE),
                            !.Timeout = getDuration(config.timeout, DefaultTimeout)]
    IN  IF ~adapterType.ok THEN Failed(ConfigErr(MsgTypeRequired, NoText))
        ELSE IF adapterType.s = AdapterTypeStdio
          THEN LET command == AsString(config.command) IN
               IF ~command.ok
                 THEN Failed(ConfigErr(MsgCommandRequired, NoText))
                 ELSE NewStdioAdapter(
                        [adapterConfig EXCEPT
                           !.Command = command.s,
                           !.Args = IF config.args.t = "strings"
                                      THEN config.args.l ELSE @,
                           !.Env = IF config.env.t = "strings"
                                     THEN config.env.l ELSE @])
        ELSE IF adapterType.s \in { AdapterTypeHTTP, AdapterTypeStreamable }
          THEN LET url == AsString(config.url) IN
               IF ~url.ok
                 THEN Failed(ConfigErr(MsgURLRequired, NoText))
                 ELSE NewHTTPAdapter([adapterConfig EXCEPT !.ServerURL = url.s])
        ELSE Failed(ConfigErr(MsgUnsupported, adapterType.s))

(***************************************************************************)
(* The inputs the construction is applied to                               *)
(***************************************************************************)
KindInputs ==
    { AdapterTypeStdio, AdapterTypeHTTP, AdapterTypeStreamable,
      << "s", "s", "e" >>, << "S", "T", "D", "I", "O" >>, NoText }

URLInputs == { NoText, << "h", "t", "t", "p", ":", "/", "/", "h" >>, << "h", "t", "t", "p", "s", ":", "/", "/", "h" >>, << "h", ":", "8", "0" >> }

CommandInputs == { NoText, << "p", "y" >> }

TimeoutInputs == { -5, 0, 5 }

ConfigInputs ==
    [ServerURL : URLInputs, Command : CommandInputs,
     Args : { << >>, << << "a" >> >> }, Env : { << >> },
     Timeout : TimeoutInputs, Verbose : BOOLEAN]

EndpointInputs ==
    { NoText, << " ", " " >>, << "h", "t", "t", "p", ":", "/", "/", "h" >>, << "h", "t", "t", "p", "s", ":", "/", "/", "h" >>, << "h", "t", "t", "p", ":", "/", "h" >>, << " ", "h", "t", "t", "p", ":", "/", "/", "h" >>,
      << "p", "y" >>, << "p", "y", " ", "s", " ", "-", "p", " ", "8" >>, << " ", "p", "y", " ", " ", "s", " " >> }

MappingInputs ==
    [type : { Absent, IntValue(7) } \cup { StringValue(k) : k \in KindInputs \ { << "S", "T", "D", "I", "O" >> } },
     command : { Absent, IntValue(7), StringValue(NoText), StringValue(<< "p", "y" >>) },
     url : { Absent, IntValue(7), StringValue(NoText), StringValue(<< "h", "t", "t", "p", ":", "/", "/", "h" >>) },
     args : { Absent, StringsValue(<< << "a" >> >>), ListValue(<< << "a" >> >>) },
     env : { Absent, StringsValue(<< << "k", "=", "v" >> >>) },
     verbose : { Absent, BoolValue(TRUE), StringValue(<< "t", "r", "u", "e" >>) },
     timeout : { Absent, IntValue(5), DurationValue(5), DurationValue(-5),
                 StringValue(<< "1", "m" >>), StringValue(<< "-", "5", "s" >>), StringValue(<< "0", "s" >>),
                 StringValue(<< "s", "o", "o", "n" >>) }]

\* no construction was called yet
\* what a call of ValidateConfig returns: accepted, or the error
Verdict(e) ==
    [ok |-> e = NoConfigErr, variant |-> "none", config |-> ZeroConfig, err |-> e]

NoCall ==
    [op |-> "none", kind |-> NoText, config |-> ZeroConfig,
     mapping |-> EmptyMapping, url |-> NoText, verbose |-> FALSE,
     out |-> Failed(NoConfigErr)]
\* the connect command has not started: where it is, whether Disconnect is
\* deferred, how often it invoked Disconnect, whether its Connect succeeded,
\* the step of the capability display, the lines read, the exit path taken
NoCommand ==
    [pc |-> "start", deferred |-> FALSE, disconnects |-> 0, connected |-> FALSE,
     step |-> 0, lines |-> 0, exit |-> "none"]

\* no lookup of the registry client is running
NoLookup ==
    [pc |-> "idle", op |-> "none", arg |-> NoText, cursor |-> NoText,
     matching |-> << >>, result |-> "none"]

VARIABLES
    variant,     \* "stdio" or "http": the concrete adapter
    connected,   \* BaseAdapter.connected
    serverInfo,  \* BaseAdapter.serverInfo (Nil or an identity)
    client,      \* the adapter's client field: 0 (nil) or a session index
    sessions,    \* every transport session created so far
    pc,          \* "idle" between operations, else the position in one
    cur,         \* the operation in progress, or the last one when idle
    ctxDone,     \* the caller's context of the operation is cancelled
    attempt,     \* loop index of waitForProcessReady (1-based)
    pingErr,     \* waitForProcessReady's err: what pingProcess returned
    closeErr,    \* what the most recent client.Close() reported
    ret,         \* result of the last completed operation
    factory,     \* the last call of a construction function and its result
    command,     \* the run of the connect command (runConnectCommand)
    registry     \* the run of a name lookup of the registry client

vars == << variant, connected, serverInfo, client, sessions, pc, cur,
           ctxDone, attempt, pingErr, closeErr, ret, factory, command,
           registry >>

\* a transport session and what has been done to it: Close invocations,
\* probe requests, handshake requests, capability requests, whether a
\* request was written after Close, whether its handshake failed
NewSession ==
    [closes |-> 0, pings |-> 0, inits |-> 0, calls |-> 0, late |-> FALSE,
     hsFailed |-> FALSE]

\* one request written to session c; late records a request after Close
\* (Send_Resend writes a capability request a second time)
Send_Resend(ss, c, kind) ==
    [ss EXCEPT ![c] =
        [@ EXCEPT !.pings = IF kind = "ping" THEN @ + 1 ELSE @,
                  !.inits = IF kind = "initialize" THEN @ + 1 ELSE @,
                  !.calls = IF kind = "call" THEN @ + 2 ELSE @,
                  !.late = @ \/ ss[c].closes > 0]]

Send(ss, c, kind) ==
    [ss EXCEPT ![c] =
        [@ EXCEPT !.pings = IF kind = "ping" THEN @ + 1 ELSE @,
                  !.inits = IF kind = "initialize" THEN @ + 1 ELSE @,
                  !.calls = IF kind = "call" THEN @ + 1 ELSE @,
                  !.late = @ \/ ss[c].closes > 0]]

\* client.Close() invoked on session c (Close_Leak releases nothing)
Close_Leak(ss, c) == ss

Close(ss, c) == [ss EXCEPT ![c].closes = @ + 1]

\* what Close may report
CloseOutcomes == { NoText } \cup CloseErrors

\* capability requests written so far, over all sessions
RECURSIVE TotalCalls(_)
TotalCalls(ss) ==
    IF ss = << >> THEN 0 ELSE Head(ss).calls + TotalCalls(Tail(ss))

\* no operation has returned yet
NoResult == [err |-> NoError, val |-> "none"]

Init ==
    /\ variant \in { "stdio", "http" }
    /\ connected = FALSE
    /\ serverInfo = Nil
    /\ client = 0
    /\ sessions = << >>
    /\ pc = "idle"
    /\ cur = [op |-> "none", target |-> "", opened |-> 0]
    /\ ctxDone = FALSE
    /\ attempt = 0
    /\ pingErr = NoText
    /\ closeErr = NoText
    /\ ret = NoResult
    /\ factory = NoCall
    /\ command = NoCommand
    /\ registry = NoLookup

\* an operation returns error e and value v to its caller; its context and
\* its local variables go out of scope
Return(e, v) ==
    /\ pc' = "idle"
    /\ ret' = [err |-> e, val |-> v]
    /\ ctxDone' = FALSE
    /\ attempt' = 0
    /\ pingErr' = NoText


\* errors a request may fail with, given the state of the caller's context
CtxErrors == IF ctxDone THEN { ErrCanceled } ELSE {}
ReplyErrors == RequestErrors \cup CtxErrors
PingErrors == ProbeErrors \cup CtxErrors

\* the message each capability operation wraps a transport error with
OpMsg(op) ==
    CASE op = "ListTools" -> "failed to list tools"
      [] op = "CallTool" -> "failed to call tool"
      [] op = "ListResources" -> "failed to list resources"
      [] op = "ReadResource" -> "failed to read resource"
      [] op = "ListPrompts" -> "failed to list prompts"
      [] op = "GetPrompt" -> "failed to get prompt"

(***************************************************************************)
(* The caller enters an operation; ret holds nothing until it returns.     *)
(* No operation looks at its context before its first wait, so a context   *)
(* that is already cancelled on entry is the same as one cancelled (Cancel)*)
(* at that first wait.                                                     *)
(***************************************************************************)
InvokeOp(op, t) ==
    /\ pc = "idle"
    /\ cur' = [op |-> op, target |-> IF op \in NamedOps THEN t ELSE "",
               opened |-> 0]
    /\ ctxDone' = FALSE
    /\ pc' = "called"
    /\ ret' = NoResult
    /\ UNCHANGED << variant, connected, serverInfo, client, sessions, attempt,
                    pingErr, closeErr >>

\* any caller enters any operation, within the bounds of the model
Invoke ==
    /\ UNCHANGED << factory, command, registry >>
    /\ \E op \in Ops, t \in Targets :
        /\ op \in NamedOps \/ t = "a"
        /\ op = "Connect" => (connected \/ Len(sessions) < MaxSessions)
        /\ (op \in CapOps /\ connected) => TotalCalls(sessions) < MaxCalls
        /\ InvokeOp(op, t)

\* BaseAdapter.IsConnected
IsConnected ==
    /\ UNCHANGED << factory, command, registry >>
    /\ pc = "called" /\ cur.op = "IsConnected"
    /\ Return(NoError, IF connected THEN "true" ELSE "false")
    /\ UNCHANGED << variant, connected, serverInfo, client, sessions, cur,
                    closeErr >>

\* BaseAdapter.GetServerInfo
GetServerInfo ==
    /\ UNCHANGED << factory, command, registry >>
    /\ pc = "called" /\ cur.op = "GetServerInfo"
    /\ IF ~connected
         THEN Return(Err(MsgNotConnected, "", NoText), Nil)
         ELSE Return(NoError, serverInfo)
    /\ UNCHANGED << variant, connected, serverInfo, client, sessions, cur,
                    closeErr >>

\* the connected check that opens every capability operation
RejectCapability_Never == FALSE

RejectCapability_NilOnly == client = 0

RejectCapability == ~connected

\* ListTools, CallTool, ListResources, ReadResource, ListPrompts, GetPrompt:
\* check connected, then write the request to the session
Capability ==
    /\ UNCHANGED << factory, command, registry >>
    /\ pc = "called" /\ cur.op \in CapOps
    /\ IF RejectCapability
         THEN /\ Return(Err(MsgNotConnected, "", NoText), Nil)
              /\ UNCHANGED sessions
         ELSE /\ client # 0
              /\ sessions' = Send(sessions, client, "call")
              /\ pc' = "call"
              /\ UNCHANGED << ret, ctxDone, attempt, pingErr >>
    /\ UNCHANGED << variant, connected, serverInfo, client, cur, closeErr >>

\* what a failed capability request does to the connection state
CapabilityFailed_Drop == << FALSE, Nil >>

CapabilityFailed == << connected, serverInfo >>

\* the session answers the capability request, or the request fails
CapabilityReply ==
    /\ UNCHANGED << factory, command, registry >>
    /\ pc = "call"
    /\ \E out \in { NoText } \cup ReplyErrors :
        IF out = NoText
          THEN /\ Return(NoError, "result")
               /\ UNCHANGED << connected, serverInfo >>
          ELSE /\ Return(Err(OpMsg(cur.op), cur.target, out), Nil)
               /\ connected' = CapabilityFailed[1]
               /\ serverInfo' = CapabilityFailed[2]
    /\ UNCHANGED << variant, client, sessions, cur, closeErr >>


\* the already-connected check that opens Connect
RejectConnect_Never == FALSE

RejectConnect == connected

\* the message a client-creation failure is wrapped with
MsgCreate ==
    IF variant = "stdio" THEN "failed to create stdio client"
    ELSE "failed to create HTTP client"

(***************************************************************************)
(* Connect, up to its first wait: the connected check, the creation of the *)
(* client (NewStdioMCPClient / NewStreamableHttpClient), its assignment to *)
(* the client field; then the HTTP adapter sends initialize and the stdio  *)
(* adapter enters waitForProcessReady.                                     *)
(***************************************************************************)
ConnectBegin ==
    /\ UNCHANGED << factory, command, registry >>
    /\ pc = "called" /\ cur.op = "Connect"
    /\ IF RejectConnect
         THEN /\ Return(Err(MsgAlreadyConnected, "", NoText), Nil)
              /\ UNCHANGED << client, sessions, cur >>
         ELSE \E out \in { NoText } \cup CreateErrors :
                IF out # NoText
                  THEN /\ Return(Err(MsgCreate, "", out), Nil)
                       /\ UNCHANGED << client, sessions, cur >>
                  ELSE /\ Len(sessions) < MaxSessions
                       /\ client' = Len(sessions) + 1
                       /\ cur' = [cur EXCEPT !.opened = Len(sessions) + 1]
                       /\ UNCHANGED << ret, ctxDone, pingErr >>
                       /\ IF variant = "stdio"
                            THEN /\ sessions' = Append(sessions, NewSession)
                                 /\ attempt' = 1
                                 /\ pc' = "delay"
                            ELSE /\ sessions' = Send(Append(sessions, NewSession),
                                                     Len(sessions) + 1, "initialize")
                                 /\ attempt' = attempt
                                 /\ pc' = "initialize"
    /\ UNCHANGED << variant, connected, serverInfo, closeErr >>

\* the caller's context is cancelled while the operation is suspended
Cancel ==
    /\ UNCHANGED << factory, command, registry >>
    /\ pc \in { "delay", "ping", "initialize", "call" }
    /\ ~ctxDone
    /\ ctxDone' = TRUE
    /\ UNCHANGED << variant, connected, serverInfo, client, sessions, pc, cur,
                    attempt, pingErr, closeErr, ret >>

\* the cleanup of a Connect that fails after the client was created:
\* client.Close(), whose own error is logged and dropped
ConnectCleanup_NoClose(ss, c) == ss

ConnectCleanup_Twice(ss, c) == Close(Close(ss, c), c)

ConnectCleanup(ss, c) == Close(ss, c)

\* what Connect returns when it failed with e and the cleanup Close reported
\* ce: the close error goes to the log only
CleanupResult_CloseWins(e, ce) == IF ce # NoText THEN Raw(ce) ELSE e

CleanupResult(e, ce) == e

\* Connect returns error e after the cleanup; the adapter's flags are the
\* ones it had on entry
ConnectFail(e, handshake) ==
    /\ \E ce \in CloseOutcomes :
        /\ sessions' = [ConnectCleanup(sessions, client) EXCEPT
                           ![client].hsFailed = @ \/ handshake]
        /\ closeErr' = ce
        /\ Return(CleanupResult(e, ce), Nil)
    /\ UNCHANGED << variant, connected, serverInfo, client, cur >>

\* waitForProcessReady, the select of one loop turn: the case <-ctx.Done()
\* is taken when the context is done (the timer of time.After cannot have
\* fired first: a done context wakes the select, or is found by its poll)
SelectDone_Never == FALSE

SelectDone == ctxDone

\* waitForProcessReady, the select of one loop turn: the context is done
WaitCancelled ==
    /\ UNCHANGED << factory, command, registry >>
    /\ pc = "delay"
    /\ SelectDone
    /\ ConnectFail(Raw(ErrCanceled), FALSE)

\* waitForProcessReady, the select of one loop turn: the delay elapses and
\* pingProcess writes its initialize request (client name "ping")
WaitElapsed ==
    /\ UNCHANGED << factory, command, registry >>
    /\ pc = "delay"
    /\ ~SelectDone
    /\ sessions' = Send(sessions, client, "ping")
    /\ pc' = "ping"
    /\ UNCHANGED << variant, connected, serverInfo, client, cur, ctxDone,
                    attempt, pingErr, closeErr, ret >>

\* pingProcess returns: the probe was answered, or failed with an error
PingReply ==
    /\ UNCHANGED << factory, command, registry >>
    /\ pc = "ping"
    /\ \E out \in { NoText } \cup PingErrors :
        /\ pingErr' = out
        /\ pc' = "pinged"
    /\ UNCHANGED << variant, connected, serverInfo, client, sessions, cur,
                    ctxDone, attempt, closeErr, ret >>

\* the number of loop turns of waitForProcessReady
ProbeAttempts_Four == Len(delays) + 1

ProbeAttempts == Len(delays)

\* waitForProcessReady's decision after probe i returned err
ProbeVerdict_ExitLast(err, i) ==
    IF err = NoText THEN "ready"
    ELSE IF i < ProbeAttempts THEN "retry"
    ELSE IF isProcessExitError(err) THEN "exited"
    ELSE "notready"

ProbeVerdict_ReadyLast(err, i) ==
    IF err = NoText THEN (IF i < ProbeAttempts THEN "retry" ELSE "ready")
    ELSE IF isProcessExitError(err) THEN "exited"
    ELSE IF i < ProbeAttempts THEN "retry"
    ELSE "notready"

ProbeVerdict_AssumeReady(err, i) ==
    IF err = NoText THEN "ready"
    ELSE IF isProcessExitError(err) THEN "exited"
    ELSE IF i < ProbeAttempts THEN "retry"
    ELSE "ready"

ProbeVerdict(err, i) ==
    IF err = NoText THEN "ready"
    ELSE IF isProcessExitError(err) THEN "exited"
    ELSE IF i < ProbeAttempts THEN "retry"
    ELSE "notready"

\* waitForProcessReady acts on the probe's result; on success Connect goes
\* on to write the real initialize request
ProbeDecide ==
    /\ UNCHANGED << factory, command, registry >>
    /\ pc = "pinged"
    /\ LET v == ProbeVerdict(pingErr, attempt) IN
        CASE v = "ready" ->
               /\ sessions' = Send(sessions, client, "initialize")
               /\ pc' = "initialize"
               /\ pingErr' = NoText
               /\ UNCHANGED << variant, connected, serverInfo, client, cur,
                               ctxDone, attempt, closeErr, ret >>
          [] v = "exited" -> ConnectFail(Err(MsgProcessExited, "", NoText), FALSE)
          [] v = "retry" ->
               /\ attempt' = attempt + 1
               /\ pc' = "delay"
               /\ pingErr' = NoText
               /\ UNCHANGED << variant, connected, serverInfo, client, sessions,
                               cur, ctxDone, closeErr, ret >>
          [] v = "notready" -> ConnectFail(Err(MsgProcessNotReady, "", NoText), FALSE)

\* the identity in the server's answer to a probe; pingProcess drops the
\* answer and keeps the error only
ProbeIdentity == "srvPing"

\* the identity Connect records, info being the one in the handshake's answer
RecordedInfo_FromProbe(info) == IF variant = "stdio" THEN ProbeIdentity ELSE info

RecordedInfo(info) == info

\* the handshake (client name "mcp-cli-adapter") is answered or fails
InitializeReply ==
    /\ UNCHANGED << factory, command, registry >>
    /\ pc = "initialize"
    /\ \E out \in { NoText } \cup ReplyErrors :
        IF out = NoText
          THEN \E info \in ServerIdentities :
                 /\ connected' = TRUE
                 /\ serverInfo' = RecordedInfo(info)
                 /\ Return(NoError, Nil)
                 /\ UNCHANGED << variant, client, sessions, cur, closeErr >>
          ELSE ConnectFail(Err(MsgInitialize, "", out), TRUE)

\* the connected check that opens Disconnect
DisconnectNoop_Never == FALSE

DisconnectNoop == ~connected

\* what Disconnect leaves in connected and serverInfo after Close
DisconnectState_KeepOnError(err) ==
    IF err = NoText THEN << FALSE, Nil >> ELSE << connected, serverInfo >>

DisconnectState_KeepInfo(err) == << FALSE, serverInfo >>

DisconnectState(err) == << FALSE, Nil >>

\* what Disconnect returns when Close reported err
DisconnectResult(err) == Raw(err)

\* Disconnect: a no-op when not connected, else Close, clear, return the
\* close error as it is
Disconnect ==
    /\ UNCHANGED << factory, command, registry >>
    /\ pc = "called" /\ cur.op = "Disconnect"
    /\ IF DisconnectNoop
         THEN /\ Return(NoError, Nil)
              /\ UNCHANGED << connected, serverInfo, sessions, closeErr >>
         ELSE \E ce \in CloseOutcomes :
                /\ client # 0
                /\ sessions' = Close(sessions, client)
                /\ closeErr' = ce
                /\ connected' = DisconnectState(ce)[1]
                /\ serverInfo' = DisconnectState(ce)[2]
                /\ Return(DisconnectResult(ce), Nil)
    /\ UNCHANGED << variant, client, cur >>

Next ==
    \/ Invoke
    \/ IsConnected
    \/ GetServerInfo
    \/ Capability
    \/ CapabilityReply
    \/ ConnectBegin
    \/ Cancel
    \/ WaitCancelled
    \/ WaitElapsed
    \/ PingReply
    \/ ProbeDecide
    \/ InitializeReply
    \/ Disconnect

Spec == Init /\ [][Next]_vars

(***************************************************************************)
(* The construction functions, each applied once to an input of its set.   *)
(* They open no session and start no process: the adapter's state is left  *)
(* as it is.                                                               *)
(***************************************************************************)
Lifecycle ==
    << variant, connected, serverInfo, client, sessions, pc, cur, ctxDone,
       attempt, pingErr, closeErr, ret >>

CallNewStdioAdapter ==
    /\ UNCHANGED << command, registry >>
    /\ factory = NoCall
    /\ \E c \in ConfigInputs :
        factory' = [NoCall EXCEPT !.op = "NewStdioAdapter", !.config = c,
                                  !.out = NewStdioAdapter(c)]
    /\ UNCHANGED Lifecycle

CallNewHTTPAdapter ==
    /\ UNCHANGED << command, registry >>
    /\ factory = NoCall
    /\ \E c \in ConfigInputs :
        factory' = [NoCall EXCEPT !.op = "NewHTTPAdapter", !.config = c,
                                  !.out = NewHTTPAdapter(c)]
    /\ UNCHANGED Lifecycle

CallNewAdapter ==
    /\ UNCHANGED << command, registry >>
    /\ factory = NoCall
    /\ \E k \in KindInputs, c \in ConfigInputs :
        factory' = [NoCall EXCEPT !.op = "NewAdapter", !.kind = k, !.config = c,
                                  !.out = NewAdapter(k, c)]
    /\ UNCHANGED Lifecycle

CallValidateConfig ==
    /\ UNCHANGED << command, registry >>
    /\ factory = NoCall
    /\ \E k \in KindInputs, c \in ConfigInputs :
        factory' = [NoCall EXCEPT !.op = "ValidateConfig", !.kind = k,
                                  !.config = c,
                                  !.out = Verdict(ValidateConfig(k, c))]
    /\ UNCHANGED Lifecycle

CallCreateFromURL ==
    /\ UNCHANGED << command, registry >>
    /\ factory = NoCall
    /\ \E u \in EndpointInputs, v \in BOOLEAN :
        factory' = [NoCall EXCEPT !.op = "CreateFromURL", !.url = u,
                                  !.verbose = v,
                                  !.out = CreateFromURL(u, v)]
    /\ UNCHANGED Lifecycle

CallCreateFromConfig ==
    /\ UNCHANGED << command, registry >>
    /\ factory = NoCall
    /\ \E m \in MappingInputs :
        factory' = [NoCall EXCEPT !.op = "CreateFromConfig", !.mapping = m,
                                  !.out = CreateFromConfig(m)]
    /\ UNCHANGED Lifecycle

FactoryNext ==
    \/ CallNewStdioAdapter
    \/ CallNewHTTPAdapter
    \/ CallNewAdapter
    \/ CallValidateConfig
    \/ CallCreateFromURL
    \/ CallCreateFromConfig

SpecFactory == Init /\ [][FactoryNext]_vars

(***************************************************************************)
(* The connect command (cmd/server.go): runConnectCommand builds a Config  *)
(* from its flags, creates the adapter, connects, defers Disconnect, asks  *)
(* for the server's identity and then shows the capabilities or reads      *)
(* commands from the terminal.  Its context is one for the whole run; an    *)
(* operation entered with that context already done is an operation whose  *)
(* context is cancelled (Cancel) at its first wait.                        *)
(***************************************************************************)
\* the --command flag
CommandFlagInputs == { NoText, << "p", "y" >>, << "p", "y", " ", "s", " ", "-", "p", " ", "8" >>, << " ", " " >> }

\* the lines the terminal delivers
LineInputs ==
    { NoText, << " ", " " >>, << "h", "e", "l", "p" >>, << "t", "o", "o", "l", "s" >>, << "r", "e", "s", "o", "u", "r", "c", "e", "s" >>, << "p", "r", "o", "m", "p", "t", "s" >>, << "c", "a", "l", "l" >>,
      << "c", "a", "l", "l", " ", "a" >>, << "r", "e", "a", "d" >>, << " ", "r", "e", "a", "d", " ", "b", " " >>, << "q", "u", "i", "t" >>, << "e", "x", "i", "t" >>, << "l", "s" >> }

\* the Config runConnectCommand builds from its flags
CommandConfig(url, commandFlag, args, timeout, verboseFlag) ==
    LET parts == Fields(commandFlag)
        split == commandFlag # NoText /\ Len(args) = 0 /\ Len(parts) > 1
    IN  [ServerURL |-> url,
         Command |-> IF split THEN parts[1] ELSE commandFlag,
         Args |-> IF split THEN Tail(parts) ELSE args,
         Env |-> << >>,
         Timeout |-> timeout,
         Verbose |-> verboseFlag]

\* the tool name or URI a line names, as the adapter sees it
TargetOf(tok) == IF tok = << "a" >> THEN "a" ELSE "b"

\* what runInteractiveMode does with a line: "skip" (next line), "quit", or
\* the adapter operation it invokes
LineAction(line) ==
    LET parts == Fields(line) IN
    IF Len(parts) = 0 THEN [do |-> "skip", target |-> "a"]
    ELSE IF parts[1] = << "t", "o", "o", "l", "s" >> THEN [do |-> "ListTools", target |-> "a"]
    ELSE IF parts[1] = << "r", "e", "s", "o", "u", "r", "c", "e", "s" >> THEN [do |-> "ListResources", target |-> "a"]
    ELSE IF parts[1] = << "p", "r", "o", "m", "p", "t", "s" >> THEN [do |-> "ListPrompts", target |-> "a"]
    ELSE IF parts[1] = << "c", "a", "l", "l" >>
      THEN IF Len(parts) < 2 THEN [do |-> "skip", target |-> "a"]
           ELSE [do |-> "CallTool", target |-> TargetOf(parts[2])]
    ELSE IF parts[1] = << "r", "e", "a", "d" >>
      THEN IF Len(parts) < 2 THEN [do |-> "skip", target |-> "a"]
           ELSE [do |-> "ReadResource", target |-> TargetOf(parts[2])]
    ELSE IF parts[1] \in { << "q", "u", "i", "t" >>, << "e", "x", "i", "t" >> } THEN [do |-> "quit", target |-> "a"]
    ELSE [do |-> "skip", target |-> "a"]

\* the calls of showServerCapabilities, in order
ShowOps == << "ListTools", "ListResources", "ListPrompts" >>

\* runConnectCommand up to NewAdapter: no adapter, or the adapter of variant
CmdCreate ==
    /\ command.pc = "start"
    /\ \E k \in KindInputs, u \in URLInputs, f \in CommandFlagInputs,
          a \in { << >>, << << "a" >> >> }, t \in TimeoutInputs, v \in BOOLEAN :
         LET r == NewAdapter(k, CommandConfig(u, f, a, t, v)) IN
         IF r.ok
           THEN /\ r.variant = variant
                /\ command' = [command EXCEPT !.pc = "connect"]
           ELSE command' = [command EXCEPT !.pc = "returned", !.exit = "create"]
    /\ UNCHANGED Lifecycle
    /\ UNCHANGED << factory, registry >>

\* serverAdapter.Connect(ctx)
CmdConnect ==
    /\ command.pc = "connect"
    /\ InvokeOp("Connect", "a")
    /\ command' = [command EXCEPT !.pc = "connecting"]
    /\ UNCHANGED << factory, registry >>

\* whether Disconnect is deferred once Connect returned err
DisconnectDeferred_Always(err) == TRUE

DisconnectDeferred(err) == err = NoError

\* Connect returned: the command returns its error, or defers Disconnect
CmdConnectReturned ==
    /\ command.pc = "connecting" /\ pc = "idle"
    /\ command' = [command EXCEPT
                     !.connected = ret.err = NoError,
                     !.deferred = DisconnectDeferred(ret.err),
                     !.pc = IF ret.err = NoError THEN "info" ELSE "unwind",
                     !.exit = IF ret.err = NoError THEN @ ELSE "connect"]
    /\ UNCHANGED Lifecycle
    /\ UNCHANGED << factory, registry >>

\* serverAdapter.GetServerInfo()
CmdGetServerInfo ==
    /\ command.pc = "info"
    /\ InvokeOp("GetServerInfo", "a")
    /\ command' = [command EXCEPT !.pc = "infoing"]
    /\ UNCHANGED << factory, registry >>

\* GetServerInfo returned: the command returns its error, or goes on in the
\* mode of the --interactive flag
CmdServerInfoReturned ==
    /\ command.pc = "infoing" /\ pc = "idle"
    /\ IF ret.err # NoError
         THEN command' = [command EXCEPT !.pc = "unwind", !.exit = "info"]
         ELSE \E interactiveMode \in BOOLEAN :
                command' = [command EXCEPT
                              !.pc = IF interactiveMode THEN "scan" ELSE "show",
                              !.step = 1]
    /\ UNCHANGED Lifecycle
    /\ UNCHANGED << factory, registry >>

\* showServerCapabilities: the next of its three calls
CmdShow ==
    /\ command.pc = "show"
    /\ InvokeOp(ShowOps[command.step], "a")
    /\ command' = [command EXCEPT !.pc = "showing"]
    /\ UNCHANGED << factory, registry >>

\* a call of showServerCapabilities returned; its error is printed only
CmdShowReturned ==
    /\ command.pc = "showing" /\ pc = "idle"
    /\ command' = IF command.step < Len(ShowOps)
                    THEN [command EXCEPT !.pc = "show", !.step = @ + 1]
                    ELSE [command EXCEPT !.pc = "unwind", !.exit = "capabilities"]
    /\ UNCHANGED Lifecycle
    /\ UNCHANGED << factory, registry >>

\* runInteractiveMode: scanner.Scan() ends the input, plainly or with a read
\* error
CmdScanEnd ==
    /\ command.pc = "scan"
    /\ \E e \in { "eof", "readerr" } :
         command' = [command EXCEPT !.pc = "unwind", !.exit = e]
    /\ UNCHANGED Lifecycle
    /\ UNCHANGED << factory, registry >>

\* runInteractiveMode: scanner.Scan() delivers a line, which is skipped,
\* quits, or invokes an operation of the adapter
CmdScanLine ==
    /\ command.pc = "scan"
    /\ command.lines < MaxLines
    /\ \E line \in LineInputs :
         LET act == LineAction(line) IN
         IF act.do = "skip"
           THEN /\ command' = [command EXCEPT !.lines = @ + 1]
                /\ UNCHANGED Lifecycle
         ELSE IF act.do = "quit"
           THEN /\ command' = [command EXCEPT !.lines = @ + 1, !.pc = "unwind",
                                              !.exit = "quit"]
                /\ UNCHANGED Lifecycle
         ELSE /\ command' = [command EXCEPT !.lines = @ + 1, !.pc = "scanning"]
              /\ InvokeOp(act.do, act.target)
    /\ UNCHANGED << factory, registry >>

\* the operation a line invoked returned; its error is printed only
CmdLineDone ==
    /\ command.pc = "scanning" /\ pc = "idle"
    /\ command' = [command EXCEPT !.pc = "scan"]
    /\ UNCHANGED Lifecycle
    /\ UNCHANGED << factory, registry >>

\* runConnectCommand returns: the deferred Disconnect runs
CmdDeferredDisconnect ==
    /\ command.pc = "unwind" /\ command.deferred
    /\ InvokeOp("Disconnect", "a")
    /\ command' = [command EXCEPT !.pc = "disconnecting", !.deferred = FALSE,
                                  !.disconnects = @ + 1]
    /\ UNCHANGED << factory, registry >>

\* runConnectCommand has returned: nothing deferred is left to run
CmdReturn ==
    /\ \/ command.pc = "unwind" /\ ~command.deferred
       \/ command.pc = "disconnecting" /\ pc = "idle"
    /\ command' = [command EXCEPT !.pc = "returned"]
    /\ UNCHANGED Lifecycle
    /\ UNCHANGED << factory, registry >>

CommandNext ==
    \/ CmdCreate
    \/ CmdConnect
    \/ CmdConnectReturned
    \/ CmdGetServerInfo
    \/ CmdServerInfoReturned
    \/ CmdShow
    \/ CmdShowReturned
    \/ CmdScanEnd
    \/ CmdScanLine
    \/ CmdLineDone
    \/ CmdDeferredDisconnect
    \/ CmdReturn
    \/ GetServerInfo
    \/ Capability
    \/ CapabilityReply
    \/ ConnectBegin
    \/ Cancel
    \/ WaitCancelled
    \/ WaitElapsed
    \/ PingReply
    \/ ProbeDecide
    \/ InitializeReply
    \/ Disconnect

SpecCommand == Init /\ [][CommandNext]_vars

(***************************************************************************)
(* The name lookups of the registry client (pkg/client): GetServerByName   *)
(* and FindServersByNamePattern walk the pages of GetServers, starting     *)
(* with the empty cursor and following each page's next cursor.  The       *)
(* registry is the environment: a request fails, or is answered by any     *)
(* page.                                                                   *)
(***************************************************************************)
\* the cursors of the registry; the empty one ends the walk
Cursors == { NoText, << "c", "1" >>, << "c", "2" >> }

\* the names of the servers on the pages, and the names and patterns asked
ServerNames == { << "A", "b" >>, << "b" >> }

LookupInputs == { NoText, << "a", "b" >>, << "B" >> }

\* what GetServers may answer: some servers and the next cursor
Pages ==
    [servers : { << >>, << << "A", "b" >> >>, << << "b" >> >>, << << "A", "b" >>, << "b" >> >> },
     next : Cursors]

\* strings.ToLower, for the letters of the names of the model
ToLower(s) ==
    [i \in 1..Len(s) |->
       CASE s[i] = "A" -> "a" [] s[i] = "B" -> "b" [] OTHER -> s[i]]

\* the servers of a page that FindServersByNamePattern keeps
RECURSIVE Matching(_, _)
Matching(servers, pattern) ==
    IF servers = << >> THEN << >>
    ELSE (IF Contains(ToLower(Head(servers)), pattern)
            THEN << Head(servers) >> ELSE << >>)
         \o Matching(Tail(servers), pattern)

\* a lookup is called; FindServersByNamePattern lowers its pattern first
LookupStart ==
    /\ registry.pc = "idle"
    /\ \E op \in { "GetServerByName", "FindServersByNamePattern" },
          arg \in LookupInputs :
         registry' = [NoLookup EXCEPT
                        !.pc = "fetch", !.op = op,
                        !.arg = IF op = "FindServersByNamePattern"
                                  THEN ToLower(arg) ELSE arg]
    /\ UNCHANGED Lifecycle
    /\ UNCHANGED << factory, command >>

\* GetServers fails: the lookup returns the wrapped error
LookupFetchFailed ==
    /\ registry.pc = "fetch"
    /\ registry' = [registry EXCEPT !.pc = "done", !.result = "error"]
    /\ UNCHANGED Lifecycle
    /\ UNCHANGED << factory, command >>

\* GetServerByName gets a page: a server of the name ends the walk with what
\* GetServer returns, the empty next cursor ends it as not found, any other
\* next cursor is followed
GetServerByNamePage ==
    /\ registry.pc = "fetch" /\ registry.op = "GetServerByName"
    /\ \E page \in Pages :
         IF \E i \in 1..Len(page.servers) : page.servers[i] = registry.arg
           THEN \E r \in { "found", "error" } :
                  registry' = [registry EXCEPT !.pc = "done", !.result = r]
         ELSE IF page.next = NoText
           THEN registry' = [registry EXCEPT !.pc = "done", !.result = "notfound"]
         ELSE registry' = [registry EXCEPT !.cursor = page.next]
    /\ UNCHANGED Lifecycle
    /\ UNCHANGED << factory, command >>

\* FindServersByNamePattern gets a page: its matching servers are appended,
\* the empty next cursor ends the walk, any other next cursor is followed
FindServersByNamePatternPage ==
    /\ registry.pc = "fetch" /\ registry.op = "FindServersByNamePattern"
    /\ \E page \in Pages :
         LET found == registry.matching \o Matching(page.servers, registry.arg) IN
         /\ Len(found) <= MaxMatches
         /\ registry' = IF page.next = NoText
                          THEN [registry EXCEPT !.pc = "done", !.result = "list",
                                                !.matching = found]
                          ELSE [registry EXCEPT !.cursor = page.next,
                                                !.matching = found]
    /\ UNCHANGED Lifecycle
    /\ UNCHANGED << factory, command >>

RegistryNext ==
    \/ LookupStart
    \/ LookupFetchFailed
    \/ GetServerByNamePage
    \/ FindServersByNamePatternPage

\* a lookup that can take a step takes one: a request is answered or fails
SpecRegistry == Init /\ [][RegistryNext]_vars /\ WF_vars(RegistryNext)




TypeOK ==
    /\ variant \in { "stdio", "http" }
    /\ connected \in BOOLEAN
    /\ serverInfo \in ServerIdentities \cup { Nil }
    /\ client \in 0..Len(sessions)
    /\ pc \in { "idle", "called", "delay", "ping", "pinged", "initialize", "call" }
    /\ cur.op \in Ops \cup { "none" }
    /\ ctxDone \in BOOLEAN
    /\ attempt \in 0..Len(delays)
    /\ pingErr \in { NoText } \cup ProbeErrors \cup { ErrCanceled }
    /\ closeErr \in CloseOutcomes
    /\ factory.op \in { "none", "NewStdioAdapter", "NewHTTPAdapter", "NewAdapter",
                      "ValidateConfig", "CreateFromURL", "CreateFromConfig" }
    /\ factory.out.ok \in BOOLEAN
    /\ command.pc \in { "start", "connect", "connecting", "info", "infoing",
                       "show", "showing", "scan", "scanning", "unwind",
                       "disconnecting", "returned" }
    /\ command.lines \in 0..MaxLines
    /\ registry.pc \in { "idle", "fetch", "done" }
    /\ Len(registry.matching) <= MaxMatches


(***************************************************************************)
(* Properties                                                              *)
(***************************************************************************)
ErrNotConnected == Err(MsgNotConnected, "", NoText)

\* the failure signatures the prober treats as a dead process:
\* process, exit, pipe, broken, EOF
ExitSignature(e) ==
    \E tok \in { TokProcess, TokExit, TokPipe, TokBroken, TokEOF } : Contains(e, tok)

\* C1: whenever the adapter is not connected, each capability operation and
\* GetServerInfo returns the not-connected error at once and no session is
\* written to.
C1_NotConnectedRejected ==
    [][ (pc = "called" /\ ~connected /\ cur.op \in CapOps \cup { "GetServerInfo" })
          => /\ pc' = "idle"
             /\ ret'.err = ErrNotConnected
             /\ sessions' = sessions ]_vars

\* a capability call was rejected on an adapter that holds a closed session
C1_Witness ==
    /\ pc = "idle" /\ cur.op = "CallTool"
    /\ ret.err = ErrNotConnected
    /\ client # 0 /\ sessions[client].closes = 1

\* C2: Connect on a connected adapter returns the already-connected error,
\* creates no session, writes no request, and leaves connected, the server
\* identity and the client untouched.
C2_ConnectTwiceRejected ==
    [][ (pc = "called" /\ cur.op = "Connect" /\ connected)
          => /\ pc' = "idle"
             /\ ret'.err = Err(MsgAlreadyConnected, "", NoText)
             /\ sessions' = sessions
             /\ client' = client
             /\ connected'
             /\ serverInfo' = serverInfo ]_vars

\* the second Connect was rejected and the adapter is still connected
C2_Witness ==
    /\ pc = "idle" /\ cur.op = "Connect"
    /\ ret.err.msg = MsgAlreadyConnected
    /\ connected /\ serverInfo \in ServerIdentities
    /\ sessions[client].closes = 0

\* C3: when Connect has returned an error from client creation, the prober
\* or the handshake, the adapter is not connected, has no server identity,
\* and the session that call created, if any, has had Close invoked.
C3_FailedConnectClean ==
    (pc = "idle" /\ cur.op = "Connect" /\ ret.err # NoError
       /\ ret.err.msg # MsgAlreadyConnected)
      => /\ ~connected
         /\ serverInfo = Nil
         /\ (cur.opened = 0) = (ret.err.msg = MsgCreate)
         /\ cur.opened # 0 => sessions[cur.opened].closes >= 1

\* an HTTP Connect failed in the handshake on the adapter's second session
C3_Witness ==
    /\ pc = "idle" /\ cur.op = "Connect"
    /\ variant = "http"
    /\ ret.err.msg = MsgInitialize
    /\ cur.opened = 2 /\ sessions[2].closes = 1

\* C4: a session whose handshake failed has had Close invoked exactly once,
\* when Connect returns and ever after, whatever is called later.
C4_HandshakeFailureClosesOnce ==
    \A i \in DOMAIN sessions : sessions[i].hsFailed => sessions[i].closes = 1

\* Disconnect has returned on an adapter whose handshake had failed
C4_Witness ==
    /\ pc = "idle" /\ cur.op = "Disconnect"
    /\ client # 0 /\ sessions[client].hsFailed
    /\ sessions[client].closes = 1

\* C5: Disconnect on a connected adapter invokes Close once on the client,
\* clears connected and the identity whatever Close reported, and returns
\* what Close reported; afterwards IsConnected is false and GetServerInfo
\* fails with not-connected.
C5_DisconnectClears ==
    [][ /\ (pc = "called" /\ cur.op = "Disconnect" /\ connected)
          => /\ pc' = "idle"
             /\ sessions'[client].closes = sessions[client].closes + 1
             /\ ~connected'
             /\ serverInfo' = Nil
             /\ ret'.err = Raw(closeErr')
        /\ (pc = "called" /\ cur.op = "IsConnected" /\ ~connected)
          => ret'.val = "false"
        /\ (pc = "called" /\ cur.op = "GetServerInfo" /\ ~connected)
          => ret'.err = ErrNotConnected ]_vars

\* Disconnect returned the error Close reported and the adapter is cleared
C5_Witness ==
    /\ pc = "idle" /\ cur.op = "Disconnect"
    /\ ret.err = Raw(ErrKilled)
    /\ ~connected /\ serverInfo = Nil
    /\ sessions[client].closes = 1

\* C6: Disconnect on an adapter that is not connected returns no error,
\* invokes no Close and changes nothing, in every such state, so also when
\* repeated.
C6_DisconnectIdempotent ==
    [][ (pc = "called" /\ cur.op = "Disconnect" /\ ~connected)
          => /\ pc' = "idle"
             /\ ret'.err = NoError
             /\ sessions' = sessions
             /\ client' = client
             /\ ~connected'
             /\ serverInfo' = serverInfo
             /\ closeErr' = closeErr ]_vars

\* Disconnect returned on an adapter whose Connect had failed in the prober
C6_Witness ==
    /\ pc = "idle" /\ cur.op = "Disconnect"
    /\ ret.err = NoError
    /\ client # 0
    /\ sessions[client].inits = 0 /\ sessions[client].closes = 1

\* C7: a capability request that fails leaves connected, the identity, the
\* client and its session as they were and not closed; a capability call on
\* a connected adapter is written to the client's session.
C7_FailedCallKeepsConnection ==
    [][ /\ (pc = "call" /\ pc' = "idle" /\ ret'.err # NoError)
          => /\ connected /\ connected'
             /\ serverInfo' = serverInfo
             /\ client' = client
             /\ sessions' = sessions
             /\ sessions[client].closes = 0
        /\ (pc = "called" /\ cur.op \in CapOps /\ connected)
          => /\ client' = client
             /\ sessions'[client].calls = sessions[client].calls + 1 ]_vars

\* a capability call failed as the second request on a session that is
\* still the connected one
C7_Witness ==
    /\ pc = "idle" /\ cur.op \in CapOps
    /\ ret.err.msg = OpMsg(cur.op) /\ ret.err.cause = ErrEOF
    /\ connected
    /\ sessions[client].calls = 2 /\ sessions[client].closes = 0

\* C8: between operations the identity is present exactly when connected is
\* true, and a successful GetServerInfo returns an identity.
C8_IdentityIffConnected ==
    pc \in { "idle", "called" }
      => /\ connected = (serverInfo # Nil)
         /\ (pc = "idle" /\ cur.op = "GetServerInfo" /\ ret.err = NoError)
              => ret.val \in ServerIdentities

\* GetServerInfo returned an identity after a reconnect
C8_Witness ==
    /\ pc = "idle" /\ cur.op = "GetServerInfo"
    /\ ret.val \in ServerIdentities
    /\ Len(sessions) = 2 /\ sessions[1].closes = 1

\* C9: with the context live, each elapsed delay sends one probe; a probe
\* failing with an error that carries no exit signature is retried until the
\* third, after which Connect fails with the not-ready error, with three
\* probes sent, the session closed and no handshake sent.
C9_ThreeProbesThenNotReady ==
    [][ /\ (pc = "delay" /\ ~ctxDone /\ pc' # "delay")
          => /\ pc' = "ping"
             /\ sessions[client].pings = attempt - 1
             /\ sessions'[client].pings = attempt
        /\ (pc = "pinged" /\ pingErr # NoText /\ ~ExitSignature(pingErr))
          => IF attempt < 3
               THEN /\ pc' = "delay"
                    /\ attempt' = attempt + 1
                    /\ sessions' = sessions
               ELSE /\ pc' = "idle"
                    /\ ret'.err = Err(MsgProcessNotReady, "", NoText)
                    /\ sessions'[client].pings = 3
                    /\ sessions'[client].inits = 0
                    /\ sessions'[client].closes = 1 ]_vars

\* Connect failed as not ready after three probes
C9_Witness ==
    /\ pc = "idle" /\ cur.op = "Connect"
    /\ ret.err.msg = MsgProcessNotReady
    /\ sessions[client].pings = 3
    /\ sessions[client].inits = 0 /\ sessions[client].closes = 1

\* C10: when probe k fails with an error that carries an exit signature,
\* Connect returns the process-exited error at once: k probes sent, the
\* session closed, no handshake sent.
C10_ExitErrorFailsFast ==
    [][ (pc = "pinged" /\ ExitSignature(pingErr))
          => /\ pc' = "idle"
             /\ ret'.err = Err(MsgProcessExited, "", NoText)
             /\ sessions[client].pings = attempt
             /\ sessions'[client].pings = attempt
             /\ sessions'[client].inits = 0
             /\ sessions'[client].closes = 1 ]_vars

\* Connect failed as exited on the second probe
C10_Witness ==
    /\ pc = "idle" /\ cur.op = "Connect"
    /\ ret.err.msg = MsgProcessExited
    /\ sessions[client].pings = 2
    /\ sessions[client].inits = 0 /\ sessions[client].closes = 1

\* C11: a probe answered without error confirms readiness at once: Connect
\* goes on to send the real handshake on the same session with exactly the
\* probes sent so far, and no probe follows while the handshake is pending.
C11_ProbeSuccessStopsProbing ==
    [][ /\ (pc = "pinged" /\ pingErr = NoText)
          => /\ pc' = "initialize"
             /\ sessions[client].pings = attempt
             /\ sessions'[client].pings = attempt
             /\ sessions'[client].inits = 1
             /\ sessions'[client].closes = 0
        /\ (pc = "initialize")
          => /\ client' = client
             /\ sessions'[client].pings = sessions[client].pings ]_vars

\* the second probe was answered: the handshake is pending after two probes
C11_Witness ==
    /\ variant = "stdio" /\ pc = "initialize"
    /\ attempt = 2
    /\ sessions[client].pings = 2
    /\ sessions[client].inits = 1

\* C12: when the context is done at the delay that precedes probe k, probe k
\* and the later ones are not sent; Connect closes the session and returns
\* the context's error, and no handshake is sent.
C12_CancelledDelayStopsConnect ==
    [][ (pc = "delay" /\ ctxDone)
          => /\ pc' = "idle"
             /\ ret'.err.cause = ErrCanceled
             /\ sessions'[client].pings = attempt - 1
             /\ sessions'[client].inits = 0
             /\ sessions'[client].closes = 1
             /\ ~connected' ]_vars

\* Connect was cancelled at the delay before the second probe
C12_Witness ==
    /\ pc = "idle" /\ cur.op = "Connect"
    /\ ret.err.cause = ErrCanceled
    /\ sessions[client].pings = 1
    /\ sessions[client].inits = 0 /\ sessions[client].closes = 1

\* C13: when the context is cancelled while a stdio Connect waits for the
\* answer to a probe or to the handshake, and that wait ends with the
\* context's error, a Connect that returns then returns an error carrying
\* the context's error, and neither the not-ready nor the exited error.
C13_CancelledIOReturnsCancellation ==
    [][ /\ (pc = "pinged" /\ pingErr = ErrCanceled /\ pc' = "idle")
          => /\ ret'.err.cause = ErrCanceled
             /\ ret'.err.msg \notin { MsgProcessNotReady, MsgProcessExited }
        /\ (variant = "stdio" /\ pc = "initialize" /\ ctxDone /\ pc' = "idle"
              /\ ret'.err.cause = ErrCanceled)
          => ret'.err.msg \notin { MsgProcessNotReady, MsgProcessExited } ]_vars

\* the kinds that select the HTTP variant
HTTPKinds == { AdapterTypeHTTP, AdapterTypeStreamable }

\* the field a kind requires is empty in config
RequiredEmpty(kind, config) ==
    \/ kind = AdapterTypeStdio /\ config.Command = NoText
    \/ kind \in HTTPKinds /\ config.ServerURL = NoText

\* C14: for each of the three kinds, ValidateConfig and NewAdapter reject a
\* config whose required field is empty: an error and no adapter come back,
\* and no session was opened.
C14_EmptyRequiredRejected ==
    (factory.op \in { "ValidateConfig", "NewAdapter" }
       /\ RequiredEmpty(factory.kind, factory.config))
      => /\ ~factory.out.ok
         /\ factory.out.err.msg # ""
         /\ factory.out.variant = "none"
         /\ sessions = << >> /\ client = 0

\* NewAdapter refused a streamable config that has a command but no URL
C14_Witness ==
    /\ factory.op = "NewAdapter"
    /\ factory.kind = AdapterTypeStreamable
    /\ factory.config.ServerURL = NoText
    /\ factory.config.Command # NoText
    /\ ~factory.out.ok

\* C15: ValidateConfig accepts a config only if exactly one of command and
\* server URL is non-empty, the one that matches the kind.
C15_ExactlyOnePopulated ==
    (factory.op = "ValidateConfig" /\ factory.out.ok)
      => \/ /\ factory.kind = AdapterTypeStdio
            /\ factory.config.Command # NoText
            /\ factory.config.ServerURL = NoText
         \/ /\ factory.kind \in HTTPKinds
            /\ factory.config.ServerURL # NoText
            /\ factory.config.Command = NoText

\* the kind string a call dispatched on, if it had one
KindGiven ==
    \/ factory.op \in { "NewAdapter", "ValidateConfig" }
    \/ factory.op = "CreateFromConfig" /\ factory.mapping.type.t = "string"

KindOf ==
    IF factory.op = "CreateFromConfig" THEN factory.mapping.type.s
    ELSE factory.kind

\* C16: NewAdapter, ValidateConfig and CreateFromConfig know exactly the
\* three kinds of GetSupportedTypes, stdio, http and streamable: any other
\* kind string fails as unsupported whatever else the config holds; a known
\* kind never does, and an adapter built for it is of the stdio variant for
\* stdio and of the HTTP variant for http and streamable.
C16_ExactlyThreeKinds ==
    /\ { GetSupportedTypes[i] : i \in 1..Len(GetSupportedTypes) }
         = { AdapterTypeStdio } \cup HTTPKinds
    /\ KindGiven =>
         IF KindOf \in { AdapterTypeStdio } \cup HTTPKinds
           THEN /\ factory.out.err.msg # MsgUnsupported
                /\ (factory.out.ok /\ factory.op # "ValidateConfig")
                     => factory.out.variant =
                          (IF KindOf = AdapterTypeStdio THEN "stdio" ELSE "http")
           ELSE /\ ~factory.out.ok
                /\ factory.out.err = ConfigErr(MsgUnsupported, KindOf)

\* NewAdapter built the HTTP variant for the kind streamable
C16_Witness ==
    /\ factory.op = "NewAdapter"
    /\ factory.kind = AdapterTypeStreamable
    /\ factory.out.ok /\ factory.out.variant = "http"

\* C17: every adapter a construction function returns holds a strictly
\* positive timeout, whatever timeout its caller or the mapping supplied.
C17_TimeoutPositive ==
    (factory.op \in { "NewStdioAdapter", "NewHTTPAdapter", "NewAdapter",
                      "CreateFromConfig", "CreateFromURL" }
       /\ factory.out.ok)
      => factory.out.config.Timeout > 0

\* the positions of s where a token starts, and where the token starting
\* at i ends
TokenStarts(s) ==
    { i \in 1..Len(s) : ~IsSpace(s[i]) /\ (i = 1 \/ IsSpace(s[i - 1])) }

TokenEnd(s, i) ==
    CHOOSE j \in i..Len(s) :
        /\ \A k \in i..j : ~IsSpace(s[k])
        /\ (j = Len(s) \/ IsSpace(s[j + 1]))

\* toks are the whitespace-separated tokens of s, in order
IsTokensOf(toks, s) ==
    /\ Len(toks) = Cardinality(TokenStarts(s))
    /\ \A i \in TokenStarts(s) :
         toks[Cardinality({ j \in TokenStarts(s) : j <= i })]
           = SubSeq(s, i, TokenEnd(s, i))

\* C18: CreateFromURL builds, for a string that begins with http:// or
\* https://, an HTTP adapter whose server URL is that string; for any other
\* string with a token, a stdio adapter whose command is the first token and
\* whose arguments are the other tokens in order; verbose is the flag given.
C18_EndpointDispatch ==
    (factory.op = "CreateFromURL") =>
      IF HasPrefix(factory.url, SchemeHTTP) \/ HasPrefix(factory.url, SchemeHTTPS)
        THEN /\ factory.out.ok /\ factory.out.variant = "http"
             /\ factory.out.config.ServerURL = factory.url
             /\ factory.out.config.Verbose = factory.verbose
        ELSE TokenStarts(factory.url) # {}
               => /\ factory.out.ok /\ factory.out.variant = "stdio"
                  /\ IsTokensOf(<< factory.out.config.Command >>
                                  \o factory.out.config.Args, factory.url)
                  /\ factory.out.config.Verbose = factory.verbose

\* a command line of four tokens became a verbose stdio adapter
C18_Witness ==
    /\ factory.op = "CreateFromURL"
    /\ factory.verbose
    /\ factory.out.ok /\ factory.out.variant = "stdio"
    /\ Len(factory.out.config.Args) = 3
    /\ factory.out.config.Verbose

\* the value of the mapping that the kind selected by its type requires
RequiredValue ==
    IF factory.mapping.type.s = AdapterTypeStdio THEN factory.mapping.command
    ELSE factory.mapping.url

\* C19: CreateFromConfig returns an error and no adapter when the type is
\* absent or not a string, or when the value required by the selected kind
\* is absent, not a string or empty; when the type is a known kind and the
\* required value a non-empty string, it returns an adapter of the selected
\* variant holding exactly that command or URL.
C19_LooseConfigShape ==
    (factory.op = "CreateFromConfig") =>
      IF factory.mapping.type.t # "string"
        THEN ~factory.out.ok /\ factory.out.variant = "none"
             /\ factory.out.err.msg # ""
      ELSE (factory.mapping.type.s \in { AdapterTypeStdio } \cup HTTPKinds) =>
        IF RequiredValue.t # "string" \/ RequiredValue.s = NoText
          THEN ~factory.out.ok /\ factory.out.variant = "none"
               /\ factory.out.err.msg # ""
          ELSE /\ factory.out.ok
               /\ IF factory.mapping.type.s = AdapterTypeStdio
                    THEN /\ factory.out.variant = "stdio"
                         /\ factory.out.config.Command = factory.mapping.command.s
                    ELSE /\ factory.out.variant = "http"
                         /\ factory.out.config.ServerURL = factory.mapping.url.s

\* a mapping of type streamable with a URL, and a command that is no string,
\* became an HTTP adapter holding that URL
C19_Witness ==
    /\ factory.op = "CreateFromConfig"
    /\ factory.mapping.type.s = AdapterTypeStreamable
    /\ factory.mapping.command.t = "int"
    /\ factory.out.ok /\ factory.out.variant = "http"
    /\ factory.out.config.ServerURL = factory.mapping.url.s
    /\ factory.out.config.ServerURL # NoText

\* C20: an error of the transport session or of the context that reaches the
\* caller is wrapped in a message naming the operation, and the tool, URI or
\* prompt where there is one; it is never returned as it came.
C20_TransportErrorsWrapped ==
    (pc = "idle" /\ ret.err.cause # NoText)
      => /\ ret.err.msg # ""
         /\ cur.op \in NamedOps => ret.err.target = cur.target

\* C21: when Connect fails in the prober or in the handshake and the cleanup
\* Close fails too, Connect returns the failure of the prober or of the
\* handshake: the context's error, the exited or the not-ready error, or the
\* wrapped handshake error, and never the error of Close.
C21_CleanupErrorNotReturned ==
    (pc = "idle" /\ cur.op = "Connect" /\ cur.opened # 0
       /\ ret.err # NoError /\ closeErr # NoText)
      => /\ ret.err.cause \notin CloseErrors
         /\ IF sessions[cur.opened].hsFailed
              THEN /\ ret.err.msg = MsgInitialize
                   /\ ret.err.cause \in { ErrEOF, ErrDeadline, ErrCanceled }
              ELSE \/ ret.err = Raw(ErrCanceled)
                   \/ ret.err = Err(MsgProcessExited, "", NoText)
                   \/ ret.err = Err(MsgProcessNotReady, "", NoText)

\* a stdio Connect failed in the handshake and its cleanup Close failed too
C21_Witness ==
    /\ variant = "stdio"
    /\ pc = "idle" /\ cur.op = "Connect" /\ cur.opened # 0
    /\ closeErr # NoText
    /\ sessions[cur.opened].closes = 1
    /\ ret.err.msg = MsgInitialize

C24_HandshakeAfterProbe ==
    [][ /\ (client # 0 /\ client' = client
              /\ sessions'[client].inits > sessions[client].inits)
          => /\ variant = "stdio"
             /\ pc = "pinged" /\ pingErr = NoText
             /\ sessions[client].pings >= 1
             /\ sessions[client].inits = 0
        /\ (client # 0 /\ client' = client
              /\ sessions'[client].pings > sessions[client].pings)
          => /\ variant = "stdio"
             /\ pc = "delay" /\ ~ctxDone
             /\ sessions[client].pings = attempt - 1
             /\ sessions[client].inits = 0
        /\ (Len(sessions') > Len(sessions))
          => /\ pc = "called" /\ cur.op = "Connect"
             /\ client' = Len(sessions')
             /\ sessions'[client'].pings = 0
             /\ IF variant = "stdio"
                  THEN /\ pc' = "delay" /\ attempt' = 1
                       /\ sessions'[client'].inits = 0
                  ELSE /\ pc' = "initialize"
                       /\ sessions'[client'].inits = 1 ]_vars

\* a stdio Connect succeeded with its first probe
C24_Witness ==
    /\ variant = "stdio"
    /\ pc = "idle" /\ cur.op = "Connect" /\ ret.err = NoError
    /\ connected
    /\ sessions[client].pings = 1
    /\ sessions[client].inits = 1

\* a stdio Connect has just returned without error
StdioConnectSucceeded ==
    /\ variant = "stdio"
    /\ pc = "idle" /\ cur.op = "Connect" /\ ret.err = NoError

\* C25 as stated: after a successful stdio Connect the session has received
\* two initialize exchanges, one probe and one handshake, and the identity
\* the adapter holds is the one of the handshake's answer.
C25_TwoExchanges ==
    StdioConnectSucceeded
      => /\ sessions[client].pings = 1
         /\ sessions[client].inits = 1
         /\ serverInfo \in ServerIdentities

\* C25: after a successful stdio Connect the session has received one to
\* three probes and exactly one handshake, and the identity the adapter holds
\* is the one of the handshake's answer, never the one answered to a probe.
C25_ProbesThenOneHandshake ==
    StdioConnectSucceeded
      => /\ sessions[client].pings \in 1..3
         /\ sessions[client].inits = 1
         /\ connected
         /\ serverInfo \in ServerIdentities
         /\ serverInfo # ProbeIdentity

\* a stdio Connect succeeded after three probes
C25_Witness ==
    /\ StdioConnectSucceeded
    /\ sessions[client].pings = 3
    /\ sessions[client].inits = 1
    /\ serverInfo \in ServerIdentities

\* the sessions on which Close was not invoked
OpenSessions == { i \in 1..Len(sessions) : sessions[i].closes = 0 }

\* C26: between operations, whatever Connect and Disconnect calls were made,
\* at most one session is open, a session is open exactly when connected is
\* true (and it is the adapter's client), and Close was invoked at most once
\* on every session.
C26_OneOpenSessionIffConnected ==
    (pc = "idle")
      => /\ Cardinality(OpenSessions) <= 1
         /\ connected <=> OpenSessions # {}
         /\ connected => OpenSessions = { client }
         /\ \A i \in 1..Len(sessions) : sessions[i].closes <= 1

\* connected on a second session after the first one was closed
C26_Witness ==
    /\ pc = "idle" /\ connected
    /\ Len(sessions) = 2
    /\ sessions[1].closes = 1
    /\ OpenSessions = { 2 }

\* C27: no request is written to a session after Close was invoked on it: a
\* request is pending or about to be written only on an open session, the
\* session a Connect works on is a new one, opened by this Connect.
C27_NoRequestAfterClose ==
    /\ \A i \in 1..Len(sessions) : ~sessions[i].late
    /\ pc \in { "delay", "ping", "pinged", "initialize", "call" }
         => client # 0 /\ sessions[client].closes = 0
    /\ pc \in { "delay", "ping", "pinged", "initialize" }
         => client = Len(sessions) /\ cur.opened = client

\* a capability call was rejected while the adapter still refers to the
\* closed session of an earlier Connect, and nothing was written to it
C27_Witness ==
    /\ pc = "idle" /\ cur.op \in CapOps
    /\ ret.err = ErrNotConnected
    /\ ~connected /\ client # 0
    /\ sessions[client].closes = 1
    /\ sessions[client].calls = 0

\* C28: a config that ValidateConfig accepts for a kind is accepted by
\* NewAdapter for that kind; ValidateConfig returns no adapter and opens no
\* session; it rejects every config whose timeout is zero or negative.
C28_ValidateImpliesConstructible ==
    (factory.op = "ValidateConfig")
      => /\ factory.out.ok => NewAdapter(factory.kind, factory.config).ok
         /\ factory.out.variant = "none"
         /\ sessions = << >> /\ client = 0
         /\ factory.config.Timeout <= 0 => ~factory.out.ok

\* ValidateConfig refused, for its zero timeout alone, a streamable config
\* that NewAdapter accepts
C28_Witness ==
    /\ factory.op = "ValidateConfig"
    /\ factory.kind = AdapterTypeStreamable
    /\ factory.config.Timeout = 0
    /\ factory.out.err.msg = MsgTimeoutPositive
    /\ NewAdapter(factory.kind, factory.config).ok

\* C29: the stdio adapter CreateFromConfig builds holds the args and the env
\* of the mapping, element for element, whether the mapping holds them as a
\* list of strings or as a generic list of strings.
C29_ListsCarried ==
    (factory.op = "CreateFromConfig" /\ factory.out.ok
       /\ factory.out.variant = "stdio")
      => /\ factory.mapping.args.t \in { "strings", "list" }
              => factory.out.config.Args = factory.mapping.args.l
         /\ factory.mapping.env.t \in { "strings", "list" }
              => factory.out.config.Env = factory.mapping.env.l

\* C23: the connect command invokes Disconnect at most once; when it has
\* returned, it has invoked Disconnect exactly once if its Connect succeeded,
\* whatever the exit path, and not at all if the adapter was not created or
\* Connect failed; the session of a successful Connect is then closed.
C23_DisconnectExactlyOnce ==
    /\ command.disconnects <= 1
    /\ command.disconnects = 1 => command.connected
    /\ command.pc = "returned"
         => /\ command.disconnects = (IF command.connected THEN 1 ELSE 0)
            /\ command.exit \in { "create", "connect" } <=> ~command.connected
            /\ ~connected
            /\ \A i \in 1..Len(sessions) : sessions[i].closes = 1

\* the command returned on a read error after a line that called a tool,
\* and had invoked Disconnect once
C23_Witness ==
    /\ command.pc = "returned"
    /\ command.exit = "readerr"
    /\ command.lines >= 1
    /\ command.disconnects = 1
    /\ \E i \in 1..Len(sessions) : sessions[i].calls = 1

\* C30: a name lookup of the registry client always terminates: whatever
\* pages the registry answers with, GetServerByName and
\* FindServersByNamePattern eventually return a result or an error.
C30_LookupTerminates == <>(registry.pc = "done")

====
